---------------------------- MODULE Spec2Model ----------------------------
(***************************************************************************)
(* Streaming encoders and decoders of rust-encoding's codec/japanese.rs    *)
(* (EUC-JP, Shift-JIS) and codec/singlebyte.rs.                            *)
(*                                                                         *)
(* A byte is a number in 0..255, a character is its code point, a str is   *)
(* a sequence of code points whose offsets are counted in UTF-8 bytes.     *)
(* One behaviour follows one encoder or decoder object from construction   *)
(* through its raw_feed calls to raw_finish.                               *)
(***************************************************************************)
EXTENDS Integers, Sequences, FiniteSets, TLC

\* Largest number of bytes fed to one decoder over all its raw_feed calls.
MaxInput == 4

\* Largest number of characters fed to one encoder over all its raw_feed calls.
MaxText == 3

NoErr  == "none"
Unrep  == "unrepresentable character"
InvSeq == "invalid sequence"
Incomp == "incomplete sequence"

\* ------------------------------------------------------------------------
\* The index tables (module index, outside codec/): total functions with
\* the sentinel 0xffff (0xff for the u8 result of a single-byte backward).
\* The entries are the ones the tests of codec/japanese.rs pin down.
\* ------------------------------------------------------------------------

index0208_forward(index) ==
    CASE index = 324  -> \h306B
      [] index = 3569 -> \h65E5
      [] index = 4007 -> \h672C
      [] index = 7073 -> \h8C78
      [] OTHER        -> \hFFFF

index0208_backward(ch) ==
    CASE ch = \h306B -> 324
      [] ch = \h65E5 -> 3569
      [] ch = \h672C -> 4007
      [] ch = \h8C78 -> 7073
      [] OTHER       -> \hFFFF

index0212_forward(index) ==
    CASE index = 3985 -> \h736C
      [] OTHER        -> \hFFFF

\* A single-byte page with unmapped cells: 0xA1 -> U+0126, 0xFF -> U+02D9.
index_forward(b) ==
    CASE b = \h21 -> \h0126
      [] b = \h7F -> \h02D9
      [] OTHER    -> \hFFFF

index_backward(ch) ==
    CASE ch = \h0126 -> \h21
      [] ch = \h02D9 -> \h7F
      [] OTHER       -> \hFF

Min(S) == CHOOSE n \in S : \A m \in S : n <= m

\* util::as_char: the code point as a char.
as_char(ch) == ch

\* The UTF-8 width of a char: what StrCharIndex::index_iter advances by.
Utf8Len(ch) ==
    IF ch <= \h7F THEN 1
    ELSE IF ch <= \h7FF THEN 2
    ELSE IF ch <= \hFFFF THEN 3
    ELSE 4

RECURSIVE StrLen(_)
StrLen(s) == IF s = <<>> THEN 0 ELSE Utf8Len(Head(s)) + StrLen(Tail(s))

\* What a raw_feed call hands back, with the object's fields on return:
\* (processed, err/upto), the units it wrote, and whether the task failed
\* (an index out of bounds) instead of returning.
Ret(processed, err, upto, out, f, s, l, failed) ==
    [processed |-> processed, err |-> err, upto |-> upto, out |-> out,
     first |-> f, second |-> s, lead |-> l, failed |-> failed]

\* ------------------------------------------------------------------------
\* EUC-JP decoder (japanese.rs, EUCJPDecoder)
\* ------------------------------------------------------------------------

InA1FE(b) == b >= \hA1 /\ b <= \hFE
InA1DF(b) == b >= \hA1 /\ b <= \hDF

EUCJP_index(lead, trail) ==
    IF InA1FE(lead) /\ InA1FE(trail)
    THEN (lead - \hA1) * 94 + trail - \hA1
    ELSE \hFFFF

EUCJP_map_two_0208_bytes(lead, trail) ==
    index0208_forward(EUCJP_index(lead, trail) % 65536)

EUCJP_map_two_0212_bytes(lead, trail) ==
    index0212_forward(EUCJP_index(lead, trail) % 65536)

\* The main loop (while i < len), entered with first = second = 0.
\* input is 1-based here: input[i] of the source is input[i + 1].
RECURSIVE EUCJPDecoderLoop(_, _, _, _)
EUCJPDecoderLoop(input, i, processed, out) ==
    LET len == Len(input)
        b   == input[i + 1]
    IN
    IF i >= len THEN Ret(processed, NoErr, 0, out, 0, 0, 0, FALSE)
    ELSE IF b <= \h7F THEN
        EUCJPDecoderLoop(input, i + 1, i + 1, Append(out, b))
    ELSE IF b = \h8E \/ b = \h8F \/ InA1FE(b) THEN
        IF i + 1 >= len THEN
            \* self.first = input[i-1]; break
            Ret(processed, NoErr, 0, out, b, 0, 0, FALSE)
        ELSE
            LET t == input[i + 2] IN
            IF b = \h8E /\ InA1DF(t) THEN
                EUCJPDecoderLoop(input, i + 2, i + 2,
                                 Append(out, as_char(\hFF61 + t - \hA1)))
            ELSE IF b = \h8F /\ InA1FE(t) THEN
                IF i + 2 >= len THEN
                    \* self.second = input[i] with i = len: index out of bounds
                    Ret(processed, NoErr, 0, out, 0, 0, 0, TRUE)
                ELSE
                    LET ch == EUCJP_map_two_0212_bytes(t, input[i + 3]) IN
                    IF ch = \hFFFF
                    THEN Ret(processed, InvSeq, i + 2, out, 0, 0, 0, FALSE)
                    ELSE EUCJPDecoderLoop(input, i + 3, i + 3,
                                          Append(out, as_char(ch)))
            ELSE IF InA1FE(b) /\ InA1FE(t) THEN
                LET ch == EUCJP_map_two_0208_bytes(b, t) IN
                IF ch = \hFFFF
                THEN Ret(processed, InvSeq, i + 1, out, 0, 0, 0, FALSE)
                ELSE EUCJPDecoderLoop(input, i + 2, i + 2,
                                      Append(out, as_char(ch)))
            ELSE
                LET upto == IF t < \hA1 \/ t > \hFE THEN i + 1 ELSE i + 2 IN
                Ret(processed, InvSeq, upto, out, 0, 0, 0, FALSE)
    ELSE
        Ret(processed, InvSeq, i + 1, out, 0, 0, 0, FALSE)

\* EUCJPDecoder::raw_feed without "processed = i" before the main loop.
EUCJPDecoderSecond_StaleProcessed(f, s, input, i, out) ==
    IF i < Len(input) /\ s # 0 THEN
        LET ch == EUCJP_map_two_0212_bytes(s, input[i + 1]) IN
        IF ch = \hFFFF
        THEN Ret(0, InvSeq, i, out, f, 0, 0, FALSE)
        ELSE EUCJPDecoderLoop(input, i + 1, 0, Append(out, as_char(ch)))
    ELSE
        EUCJPDecoderLoop(input, i, 0, out)

\* The same without `self.second = 0` at line 135: a byte stored in second
\* by the first block stays there when the chunk ends with it.
EUCJPDecoderSecond_NoReset(f, s, input, i, out) ==
    IF i < Len(input) /\ s # 0 THEN
        LET ch == EUCJP_map_two_0212_bytes(s, input[i + 1]) IN
        IF ch = \hFFFF
        THEN Ret(0, InvSeq, i, out, f, 0, 0, FALSE)
        ELSE EUCJPDecoderLoop(input, i + 1, i + 1, Append(out, as_char(ch)))
    ELSE
        [EUCJPDecoderLoop(input, i, i, out) EXCEPT !.second = s]

\* The second carry slot (if i < len && self.second != 0), then the reset of
\* both slots and the main loop.  f and s are the slots as the first block
\* left them, i and out its position and output.
EUCJPDecoderSecond(f, s, input, i, out) ==
    IF i < Len(input) /\ s # 0 THEN
        LET ch == EUCJP_map_two_0212_bytes(s, input[i + 1]) IN
        IF ch = \hFFFF
        THEN Ret(0, InvSeq, i, out, f, 0, 0, FALSE)
        ELSE EUCJPDecoderLoop(input, i + 1, i + 1, Append(out, as_char(ch)))
    ELSE
        EUCJPDecoderLoop(input, i, i, out)

\* EUCJPDecoder::raw_feed on a decoder holding (first, second).
EUCJPDecoder_raw_feed(first, second, input) ==
    IF 0 < Len(input) /\ first # 0 THEN
        LET t == input[1] IN
        IF first = \h8E /\ InA1DF(t) THEN
            EUCJPDecoderSecond(first, second, input, 1,
                               <<as_char(\hFF61 + t - \hA1)>>)
        ELSE IF first = \h8F THEN
            EUCJPDecoderSecond(0, t, input, 1, <<>>)
        ELSE
            LET ch == EUCJP_map_two_0208_bytes(first, t) IN
            IF ch = \hFFFF
            THEN Ret(0, InvSeq, 0, <<>>, 0, second, 0, FALSE)
            ELSE EUCJPDecoderSecond(first, second, input, 1, <<as_char(ch)>>)
    ELSE
        EUCJPDecoderSecond(first, second, input, 0, <<>>)

\* raw_finish looking at `second` only, as if `|| self.first != 0` were missing.
EUCJPDecoder_raw_finish_SecondOnly(first, second) ==
    IF second # 0 THEN Incomp ELSE NoErr

EUCJPDecoder_raw_finish(first, second) ==
    IF second # 0 \/ first # 0 THEN Incomp ELSE NoErr

\* ------------------------------------------------------------------------
\* Shift-JIS decoder (japanese.rs, ShiftJISDecoder)
\* ------------------------------------------------------------------------

\* The lead-byte arm widened to 0x80..0x9f | 0xe0..0xfc.
SJISLead_From80(b) == (b >= \h80 /\ b <= \h9F) \/ (b >= \hE0 /\ b <= \hFC)

SJISLead(b)  == (b >= \h81 /\ b <= \h9F) \/ (b >= \hE0 /\ b <= \hFC)
SJISTrail(b) == (b >= \h40 /\ b <= \h7E) \/ (b >= \h80 /\ b <= \hFC)

\* The index arithmetic of map_two_0208_bytes applied to any two bytes, as if
\* the match had the single arm `(lead, trail) => ...`.
ShiftJIS_index_NoRange(lead, trail) ==
    LET leadoffset  == IF lead < \hA0 THEN \h81 ELSE \hC1
        trailoffset == IF trail < \h7F THEN \h40 ELSE \h41
    IN  (lead - leadoffset) * 188 + trail - trailoffset

ShiftJIS_index(lead, trail) ==
    IF SJISLead(lead) /\ SJISTrail(trail)
    THEN LET leadoffset  == IF lead < \hA0 THEN \h81 ELSE \hC1
             trailoffset == IF trail < \h7F THEN \h40 ELSE \h41
         IN  (lead - leadoffset) * 188 + trail - trailoffset
    ELSE \hFFFF

ShiftJIS_map_two_0208_bytes(lead, trail) ==
    index0208_forward(ShiftJIS_index(lead, trail) % 65536)

RECURSIVE ShiftJISDecoderLoop(_, _, _, _)
ShiftJISDecoderLoop(input, i, processed, out) ==
    LET len == Len(input)
        b   == input[i + 1]
    IN
    IF i >= len THEN Ret(processed, NoErr, 0, out, 0, 0, 0, FALSE)
    ELSE IF b <= \h7F THEN
        ShiftJISDecoderLoop(input, i + 1, i + 1, Append(out, b))
    ELSE IF InA1DF(b) THEN
        ShiftJISDecoderLoop(input, i + 1, i + 1,
                            Append(out, as_char(\hFF61 + b - \hA1)))
    ELSE IF SJISLead(b) THEN
        IF i + 1 >= len THEN
            \* self.lead = input[i-1]; break
            Ret(processed, NoErr, 0, out, 0, 0, b, FALSE)
        ELSE
            LET ch == ShiftJIS_map_two_0208_bytes(b, input[i + 2]) IN
            IF ch = \hFFFF
            THEN Ret(processed, InvSeq, i + 1, out, 0, 0, 0, FALSE)
            ELSE ShiftJISDecoderLoop(input, i + 2, i + 2,
                                     Append(out, as_char(ch)))
    ELSE
        Ret(processed, InvSeq, i + 1, out, 0, 0, 0, FALSE)

\* ShiftJISDecoder::raw_feed with the resumption from self.lead left out.
ShiftJISDecoder_raw_feed_NoResume(lead, input) ==
    ShiftJISDecoderLoop(input, 0, 0, <<>>)

\* ShiftJISDecoder::raw_feed without `self.lead = 0` at line 335: the carried
\* lead stays in the slot when the resumption fails.
ShiftJISDecoder_raw_feed_KeepsLead(lead, input) ==
    IF 0 < Len(input) /\ lead # 0 THEN
        LET ch == ShiftJIS_map_two_0208_bytes(lead, input[1]) IN
        IF ch = \hFFFF
        THEN Ret(0, InvSeq, 0, <<>>, 0, 0, lead, FALSE)
        ELSE ShiftJISDecoderLoop(input, 1, 1, <<as_char(ch)>>)
    ELSE
        ShiftJISDecoderLoop(input, 0, 0, <<>>)

\* ShiftJISDecoder::raw_feed on a decoder holding lead.
ShiftJISDecoder_raw_feed(lead, input) ==
    IF 0 < Len(input) /\ lead # 0 THEN
        LET ch == ShiftJIS_map_two_0208_bytes(lead, input[1]) IN
        IF ch = \hFFFF
        THEN Ret(0, InvSeq, 0, <<>>, 0, 0, 0, FALSE)
        ELSE ShiftJISDecoderLoop(input, 1, 1, <<as_char(ch)>>)
    ELSE
        ShiftJISDecoderLoop(input, 0, 0, <<>>)

ShiftJISDecoder_raw_finish(lead) ==
    IF lead # 0 THEN Incomp ELSE NoErr

\* ------------------------------------------------------------------------
\* Single-byte decoder (singlebyte.rs, SingleByteDecoder)
\* ------------------------------------------------------------------------

RECURSIVE SingleByteDecoderLoop(_, _, _)
SingleByteDecoderLoop(input, i, out) ==
    LET b == input[i + 1] IN
    IF i >= Len(input) THEN Ret(i, NoErr, 0, out, 0, 0, 0, FALSE)
    ELSE IF b <= \h7F THEN
        SingleByteDecoderLoop(input, i + 1, Append(out, b))
    ELSE
        LET ch == index_forward(b - \h80) IN
        IF ch # \hFFFF
        THEN SingleByteDecoderLoop(input, i + 1, Append(out, as_char(ch)))
        ELSE Ret(i, InvSeq, i + 1, out, 0, 0, 0, FALSE)

\* raw_feed reporting the fault at the unmapped byte itself, `upto: i`.
SingleByteDecoder_raw_feed_UptoAtFault(input) ==
    LET r == SingleByteDecoderLoop(input, 0, <<>>) IN
    IF r.err = NoErr THEN r ELSE [r EXCEPT !.upto = r.processed]

SingleByteDecoder_raw_feed(input) == SingleByteDecoderLoop(input, 0, <<>>)

SingleByteDecoder_raw_finish == NoErr

\* ------------------------------------------------------------------------
\* Encoders.  input is a str: k counts its characters, i is the UTF-8 offset
\* of character k, so index_iter yields ((i, i + Utf8Len(ch)), ch).
\* ------------------------------------------------------------------------

\* The two values written for the X 0208 coordinate ptr, before `as u8`.
EUCJPEncoder_bytes(ptr) ==
    LET lead  == (ptr \div 94) + \hA1
        trail == (ptr % 94) + \hA1
    IN  <<lead, trail>>

RECURSIVE EUCJPEncoderLoop(_, _, _, _)
EUCJPEncoderLoop(input, k, i, out) ==
    LET ch == input[k + 1]
        j  == i + Utf8Len(ch)
    IN
    IF k >= Len(input) THEN Ret(StrLen(input), NoErr, 0, out, 0, 0, 0, FALSE)
    ELSE IF ch <= \h7F THEN
        EUCJPEncoderLoop(input, k + 1, j, Append(out, ch % 256))
    ELSE IF ch = \hA5 THEN
        EUCJPEncoderLoop(input, k + 1, j, Append(out, \h5C))
    ELSE IF ch = \h203E THEN
        EUCJPEncoderLoop(input, k + 1, j, Append(out, \h7E))
    ELSE IF ch >= \hFF61 /\ ch <= \hFF9F THEN
        EUCJPEncoderLoop(input, k + 1, j,
                         out \o <<\h8E, (ch - \hFF61 + \hA1) % 256>>)
    ELSE
        LET ptr == index0208_backward(ch) IN
        IF ptr = \hFFFF
        THEN Ret(i, Unrep, j, out, 0, 0, 0, FALSE)
        ELSE LET b == EUCJPEncoder_bytes(ptr)
             IN  EUCJPEncoderLoop(input, k + 1, j,
                                  out \o <<b[1] % 256, b[2] % 256>>)

\* EUCJPEncoder::raw_feed returning the end of the refused character.
EUCJPEncoder_raw_feed_ReturnsEnd(input) ==
    LET r == EUCJPEncoderLoop(input, 0, 0, <<>>) IN
    IF r.err = NoErr THEN r ELSE [r EXCEPT !.processed = r.upto]

\* EUCJPEncoder::raw_feed with the first arm matching only up to U+007E:
\* U+007F goes to the X 0208 lookup, which has no entry for it.
EUCJPEncoder_raw_feed_ShortASCII(input) ==
    IF \E n \in 1..Len(input) : input[n] = \h7F
    THEN LET n == Min({m \in 1..Len(input) : input[m] = \h7F})
             r == EUCJPEncoderLoop(SubSeq(input, 1, n - 1), 0, 0, <<>>)
         IN  IF r.err # NoErr THEN r
             ELSE Ret(r.processed, Unrep, r.processed + 1, r.out, 0, 0, 0, FALSE)
    ELSE EUCJPEncoderLoop(input, 0, 0, <<>>)

EUCJPEncoder_raw_feed(input) == EUCJPEncoderLoop(input, 0, 0, <<>>)

EUCJPEncoder_raw_finish == NoErr

\* The lead offset chosen by `if lead < 0x20`.
ShiftJISEncoder_bytes_Lead20(ptr) ==
    LET lead        == ptr \div 188
        leadoffset  == IF lead < \h20 THEN \h81 ELSE \hC1
        trail       == ptr % 188
        trailoffset == IF trail < \h3F THEN \h40 ELSE \h41
    IN  <<lead + leadoffset, trail + trailoffset>>

\* The two values written for the X 0208 coordinate ptr, before `as u8`.
ShiftJISEncoder_bytes(ptr) ==
    LET lead        == ptr \div 188
        leadoffset  == IF lead < \h1F THEN \h81 ELSE \hC1
        trail       == ptr % 188
        trailoffset == IF trail < \h3F THEN \h40 ELSE \h41
    IN  <<lead + leadoffset, trail + trailoffset>>

RECURSIVE ShiftJISEncoderLoop(_, _, _, _)
ShiftJISEncoderLoop(input, k, i, out) ==
    LET ch == input[k + 1]
        j  == i + Utf8Len(ch)
    IN
    IF k >= Len(input) THEN Ret(StrLen(input), NoErr, 0, out, 0, 0, 0, FALSE)
    ELSE IF ch <= \h80 THEN
        ShiftJISEncoderLoop(input, k + 1, j, Append(out, ch % 256))
    ELSE IF ch = \hA5 THEN
        ShiftJISEncoderLoop(input, k + 1, j, Append(out, \h5C))
    ELSE IF ch = \h203E THEN
        ShiftJISEncoderLoop(input, k + 1, j, Append(out, \h7E))
    ELSE IF ch >= \hFF61 /\ ch <= \hFF9F THEN
        ShiftJISEncoderLoop(input, k + 1, j,
                            Append(out, (ch - \hFF61 + \hA1) % 256))
    ELSE
        LET ptr == index0208_backward(ch) IN
        IF ptr = \hFFFF
        THEN Ret(i, Unrep, j, out, 0, 0, 0, FALSE)
        ELSE LET b == ShiftJISEncoder_bytes(ptr)
             IN  ShiftJISEncoderLoop(input, k + 1, j,
                                     out \o <<b[1] % 256, b[2] % 256>>)

ShiftJISEncoder_raw_feed(input) == ShiftJISEncoderLoop(input, 0, 0, <<>>)

ShiftJISEncoder_raw_finish == NoErr

RECURSIVE SingleByteEncoderLoop(_, _, _, _)
SingleByteEncoderLoop(input, k, i, out) ==
    LET ch    == input[k + 1]
        j     == i + Utf8Len(ch)
        index == index_backward(ch % 65536)
    IN
    IF k >= Len(input) THEN Ret(StrLen(input), NoErr, 0, out, 0, 0, 0, FALSE)
    ELSE IF ch <= \h7F THEN
        SingleByteEncoderLoop(input, k + 1, j, Append(out, ch % 256))
    ELSE IF ch <= \hFFFF /\ index # \hFF THEN
        SingleByteEncoderLoop(input, k + 1, j, Append(out, (index + \h80) % 256))
    ELSE
        Ret(i, Unrep, j, out, 0, 0, 0, FALSE)

SingleByteEncoder_raw_feed(input) == SingleByteEncoderLoop(input, 0, 0, <<>>)

SingleByteEncoder_raw_finish == NoErr

\* ------------------------------------------------------------------------
\* One object and its caller
\* ------------------------------------------------------------------------

VARIABLES
    kind,     \* the object: one of Kinds
    first,    \* EUCJPDecoder.first
    second,   \* EUCJPDecoder.second
    lead,     \* ShiftJISDecoder.lead
    fed,      \* every unit handed to raw_feed so far, in order
    output,   \* the sink: every unit written so far
    call,     \* the last call: its arguments, the fields before it, its return
    hist,     \* what the calls so far did: an error returned, an empty chunk fed
    source    \* the text whose encoding the decoder is reading (Decode), else <<>>

vars == <<kind, first, second, lead, fed, output, call, hist, source>>

Decoders == {"EUCJPDecoder", "ShiftJISDecoder", "SingleByteDecoder"}
Encoders == {"EUCJPEncoder", "ShiftJISEncoder", "SingleByteEncoder"}
Kinds    == Decoders \cup Encoders

\* Encoding::decoder() of the encoding an encoder belongs to.
DecoderOf(k) ==
    CASE k = "EUCJPEncoder"      -> "EUCJPDecoder"
      [] k = "ShiftJISEncoder"   -> "ShiftJISDecoder"
      [] k = "SingleByteEncoder" -> "SingleByteDecoder"

\* The bytes and characters the caller draws its chunks from: for each
\* branch of each match, a unit that takes it.
InputUnits(k) ==
    CASE k = "EUCJPDecoder"      -> {\h41, \h8E, \h8F, \hA9, \hC6, \hCB, \hFC, \hFF}
      [] k = "ShiftJISDecoder"   -> {\h7B, \h80, \h96, \hB6, \hC6, \hE6, \hFA}
      [] k = "SingleByteDecoder" -> {\h41, \h7F, \h80, \hA1, \hA5, \hFF}
      [] k = "EUCJPEncoder"      ->
            {\h41, \h7F, \h80, \hA5, \h203E, \hFF86, \h65E5, \h672C, \h8C78, \h736C, \h10000}
      [] k = "ShiftJISEncoder"   ->
            {\h41, \h7F, \h80, \hA5, \h203E, \hFF86, \h65E5, \h672C, \h8C78, \h736C, \h10000}
      [] k = "SingleByteEncoder" -> {\h41, \h7F, \h80, \h0126, \hFFFF, \h10000}

SeqsUpTo(S, n) == UNION {[1..m -> S] : m \in 0..n}

MaxFed(k) == IF k \in Decoders THEN MaxInput ELSE MaxText

Chunks == SeqsUpTo(InputUnits(kind), MaxFed(kind) - Len(fed))

NoCall ==
    [op |-> "new", chunk |-> <<>>, first |-> 0, second |-> 0, lead |-> 0,
     processed |-> 0, err |-> NoErr, upto |-> 0, out |-> <<>>, failed |-> FALSE]

\* The object can still be called: not finished, and its task has not failed.
Live == call.op # "finish" /\ ~call.failed

\* A raw_feed call that ended as r on chunk.
Fed(r, chunk) ==
    /\ first'  = r.first
    /\ second' = r.second
    /\ lead'   = r.lead
    /\ fed'    = fed \o chunk
    /\ output' = output \o r.out
    /\ call'   = [op |-> "feed", chunk |-> chunk,
                  first |-> first, second |-> second, lead |-> lead,
                  processed |-> r.processed, err |-> r.err, upto |-> r.upto,
                  out |-> r.out, failed |-> r.failed]
    /\ hist'   = [errors  |-> hist.errors \/ r.err # NoErr,
                  empties |-> hist.empties \/ chunk = <<>>]
    /\ UNCHANGED <<kind, source>>

\* A raw_finish call that returned err: it writes nothing and sets no field.
Finished(err) ==
    /\ call' = [op |-> "finish", chunk |-> <<>>,
                first |-> first, second |-> second, lead |-> lead,
                processed |-> 0, err |-> err, upto |-> 0,
                out |-> <<>>, failed |-> FALSE]
    /\ UNCHANGED <<kind, first, second, lead, fed, output, hist, source>>

Init ==
    /\ kind \in Kinds
    /\ first = 0
    /\ second = 0
    /\ lead = 0
    /\ fed = <<>>
    /\ output = <<>>
    /\ call = NoCall
    /\ hist = [errors |-> FALSE, empties |-> FALSE]
    /\ source = <<>>

EUCJPDecoderFeed ==
    /\ kind = "EUCJPDecoder" /\ Live
    /\ \E chunk \in Chunks : Fed(EUCJPDecoder_raw_feed(first, second, chunk), chunk)

EUCJPDecoderFinish ==
    /\ kind = "EUCJPDecoder" /\ Live
    /\ Finished(EUCJPDecoder_raw_finish(first, second))

ShiftJISDecoderFeed ==
    /\ kind = "ShiftJISDecoder" /\ Live
    /\ \E chunk \in Chunks : Fed(ShiftJISDecoder_raw_feed(lead, chunk), chunk)

ShiftJISDecoderFinish ==
    /\ kind = "ShiftJISDecoder" /\ Live
    /\ Finished(ShiftJISDecoder_raw_finish(lead))

SingleByteDecoderFeed ==
    /\ kind = "SingleByteDecoder" /\ Live
    /\ \E chunk \in Chunks : Fed(SingleByteDecoder_raw_feed(chunk), chunk)

SingleByteDecoderFinish ==
    /\ kind = "SingleByteDecoder" /\ Live
    /\ Finished(SingleByteDecoder_raw_finish)

EUCJPEncoderFeed ==
    /\ kind = "EUCJPEncoder" /\ Live
    /\ \E chunk \in Chunks : Fed(EUCJPEncoder_raw_feed(chunk), chunk)

EUCJPEncoderFinish ==
    /\ kind = "EUCJPEncoder" /\ Live
    /\ Finished(EUCJPEncoder_raw_finish)

ShiftJISEncoderFeed ==
    /\ kind = "ShiftJISEncoder" /\ Live
    /\ \E chunk \in Chunks : Fed(ShiftJISEncoder_raw_feed(chunk), chunk)

ShiftJISEncoderFinish ==
    /\ kind = "ShiftJISEncoder" /\ Live
    /\ Finished(ShiftJISEncoder_raw_finish)

SingleByteEncoderFeed ==
    /\ kind = "SingleByteEncoder" /\ Live
    /\ \E chunk \in Chunks : Fed(SingleByteEncoder_raw_feed(chunk), chunk)

SingleByteEncoderFinish ==
    /\ kind = "SingleByteEncoder" /\ Live
    /\ Finished(SingleByteEncoder_raw_finish)

Next ==
    \/ EUCJPDecoderFeed
    \/ EUCJPDecoderFinish
    \/ ShiftJISDecoderFeed
    \/ ShiftJISDecoderFinish
    \/ SingleByteDecoderFeed
    \/ SingleByteDecoderFinish
    \/ EUCJPEncoderFeed
    \/ EUCJPEncoderFinish
    \/ ShiftJISEncoderFeed
    \/ ShiftJISEncoderFinish
    \/ SingleByteEncoderFeed
    \/ SingleByteEncoderFinish

Spec == Init /\ [][Next]_vars

\* ------------------------------------------------------------------------
\* Round trip: the bytes an encoder wrote, read back by a fresh decoder of
\* the same encoding in one chunk.
\* ------------------------------------------------------------------------

DecoderFeed(k, f, s, l, chunk) ==
    CASE k = "EUCJPDecoder"      -> EUCJPDecoder_raw_feed(f, s, chunk)
      [] k = "ShiftJISDecoder"   -> ShiftJISDecoder_raw_feed(l, chunk)
      [] k = "SingleByteDecoder" -> SingleByteDecoder_raw_feed(chunk)

EncoderFeed(k, chunk) ==
    CASE k = "EUCJPEncoder"      -> EUCJPEncoder_raw_feed(chunk)
      [] k = "ShiftJISEncoder"   -> ShiftJISEncoder_raw_feed(chunk)
      [] k = "SingleByteEncoder" -> SingleByteEncoder_raw_feed(chunk)

\* The encoder has finished without an error; Encoding::decoder() makes the
\* decoder (all carry slots 0), which is fed everything the encoder wrote.
Decode ==
    /\ kind \in Encoders
    /\ call.op = "finish"
    /\ ~hist.errors
    /\ LET r == DecoderFeed(DecoderOf(kind), 0, 0, 0, output) IN
        /\ kind'   = DecoderOf(kind)
        /\ source' = fed
        /\ first'  = r.first
        /\ second' = r.second
        /\ lead'   = r.lead
        /\ fed'    = output
        /\ output' = r.out
        /\ call'   = [op |-> "feed", chunk |-> output,
                      first |-> 0, second |-> 0, lead |-> 0,
                      processed |-> r.processed, err |-> r.err, upto |-> r.upto,
                      out |-> r.out, failed |-> r.failed]
        /\ hist'   = [errors  |-> r.err # NoErr, empties |-> output = <<>>]

InitRT == Init /\ kind \in Encoders

NextRT ==
    \/ EUCJPEncoderFeed
    \/ EUCJPEncoderFinish
    \/ ShiftJISEncoderFeed
    \/ ShiftJISEncoderFinish
    \/ SingleByteEncoderFeed
    \/ SingleByteEncoderFinish
    \/ Decode
    \/ EUCJPDecoderFinish
    \/ ShiftJISDecoderFinish
    \/ SingleByteDecoderFinish

SpecRT == InitRT /\ [][NextRT]_vars

\* ------------------------------------------------------------------------
\* Shapes of byte sequences, as the encodings define them
\* ------------------------------------------------------------------------

Drop(s, n) == SubSeq(s, n + 1, Len(s))

\* "complete": a run of whole sequences (ASCII, 0x8E + katakana, a mapped
\* X 0208 pair, 0x8F + a mapped X 0212 pair); "partial": such a run followed
\* by the beginning of one more sequence; "bad": anything else.
RECURSIVE EUCJPShape(_)
EUCJPShape(s) ==
    IF s = <<>> THEN "complete"
    ELSE IF s[1] <= \h7F THEN EUCJPShape(Drop(s, 1))
    ELSE IF s[1] = \h8E THEN
        IF Len(s) = 1 THEN "partial"
        ELSE IF s[2] >= \hA1 /\ s[2] <= \hDF THEN EUCJPShape(Drop(s, 2))
        ELSE "bad"
    ELSE IF s[1] = \h8F THEN
        IF Len(s) = 1 THEN "partial"
        ELSE IF ~(s[2] >= \hA1 /\ s[2] <= \hFE) THEN "bad"
        ELSE IF Len(s) = 2 THEN "partial"
        ELSE IF /\ s[3] >= \hA1 /\ s[3] <= \hFE
                /\ index0212_forward((s[2] - \hA1) * 94 + (s[3] - \hA1)) # \hFFFF
             THEN EUCJPShape(Drop(s, 3))
        ELSE "bad"
    ELSE IF s[1] >= \hA1 /\ s[1] <= \hFE THEN
        IF Len(s) = 1 THEN "partial"
        ELSE IF /\ s[2] >= \hA1 /\ s[2] <= \hFE
                /\ index0208_forward((s[1] - \hA1) * 94 + (s[2] - \hA1)) # \hFFFF
             THEN EUCJPShape(Drop(s, 2))
        ELSE "bad"
    ELSE "bad"

\* The X 0208 coordinate of a Shift-JIS lead/trail pair.
SJISCoordinate(l, t) ==
    (l - (IF l <= \h9F THEN \h81 ELSE \hC1)) * 188
        + (t - (IF t <= \h7E THEN \h40 ELSE \h41))

RECURSIVE ShiftJISShape(_)
ShiftJISShape(s) ==
    IF s = <<>> THEN "complete"
    ELSE IF s[1] <= \h7F \/ (s[1] >= \hA1 /\ s[1] <= \hDF)
    THEN ShiftJISShape(Drop(s, 1))
    ELSE IF (s[1] >= \h81 /\ s[1] <= \h9F) \/ (s[1] >= \hE0 /\ s[1] <= \hFC) THEN
        IF Len(s) = 1 THEN "partial"
        ELSE IF /\ (s[2] >= \h40 /\ s[2] <= \h7E) \/ (s[2] >= \h80 /\ s[2] <= \hFC)
                /\ index0208_forward(SJISCoordinate(s[1], s[2])) # \hFFFF
             THEN ShiftJISShape(Drop(s, 2))
        ELSE "bad"
    ELSE "bad"

RECURSIVE SingleByteShape(_)
SingleByteShape(s) ==
    IF s = <<>> THEN "complete"
    ELSE IF s[1] <= \h7F \/ index_forward(s[1] - \h80) # \hFFFF
    THEN SingleByteShape(Drop(s, 1))
    ELSE "bad"

Shape(k, s) ==
    CASE k = "EUCJPDecoder"      -> EUCJPShape(s)
      [] k = "ShiftJISDecoder"   -> ShiftJISShape(s)
      [] k = "SingleByteDecoder" -> SingleByteShape(s)

\* ------------------------------------------------------------------------
\* Claims
\* ------------------------------------------------------------------------

\* A decoder of kind k after raw_feed calls only, none with an empty chunk:
\* the chunks fed are a partition of fed.
Partitioned(k) ==
    kind = k /\ source = <<>> /\ call.op = "feed" /\ ~hist.empties

\* C1: EUC-JP chunk-boundary invariance.  Whenever the non-empty chunks fed
\* to a fresh EUCJPDecoder concatenate to a valid EUC-JP sequence, every call
\* returned without error, and the sink and (first, second) are what one
\* raw_feed of the whole sequence to a fresh decoder gives.
C1_EUCJPChunkInvariance ==
    (Partitioned("EUCJPDecoder") /\ EUCJPShape(fed) = "complete") =>
        LET whole == EUCJPDecoder_raw_feed(0, 0, fed) IN
        /\ ~call.failed
        /\ ~hist.errors
        /\ output = whole.out
        /\ first = whole.first
        /\ second = whole.second

\* C2: Shift-JIS chunk-boundary invariance.  Whenever the non-empty chunks
\* fed to a fresh ShiftJISDecoder concatenate to a valid Shift-JIS sequence,
\* every call returned without error, and the sink and lead are what one
\* raw_feed of the whole sequence to a fresh decoder gives.
C2_ShiftJISChunkInvariance ==
    (Partitioned("ShiftJISDecoder") /\ ShiftJISShape(fed) = "complete") =>
        LET whole == ShiftJISDecoder_raw_feed(0, fed) IN
        /\ ~call.failed
        /\ ~hist.errors
        /\ output = whole.out
        /\ lead = whole.lead

\* A valid Shift-JIS sequence whose two-byte character 0x96 0x7B was split
\* between two chunks: the last call resumed from the carried lead byte.
C2_Witness ==
    /\ Partitioned("ShiftJISDecoder")
    /\ ShiftJISShape(fed) = "complete"
    /\ call.lead = \h96
    /\ call.chunk = <<\h7B, \hC6>>
    /\ output = <<\hC6 - \hA1 + \hFF61, \h672C, \hC6 - \hA1 + \hFF61>>

\* The length of a chunk in the units raw_feed counts: bytes of the byte
\* slice for a decoder, UTF-8 bytes of the str for an encoder.
ChunkLen == IF kind \in Decoders THEN Len(call.chunk) ELSE StrLen(call.chunk)

\* The trailing bytes of the chunk that the call left in a carry slot.
Pending == IF first # 0 \/ second # 0 \/ lead # 0 THEN 1 ELSE 0

\* C3 as stated: whenever raw_feed of any codec returns no error, the
\* returned count is the length of the chunk.
C3_ConsumedIsLength ==
    (call.op = "feed" /\ ~call.failed /\ call.err = NoErr) =>
        call.processed = ChunkLen

\* C3 amended: whenever raw_feed returns no error, the returned count is the
\* length of the chunk less the trailing byte the call left in a carry slot;
\* it is the length of the chunk exactly when no carry slot is set on return
\* (always so for the encoders and the single-byte decoder).
C3_ConsumedIsLengthLessCarry ==
    (call.op = "feed" /\ ~call.failed /\ call.err = NoErr) =>
        /\ call.processed = ChunkLen - Pending
        /\ kind \in Encoders \cup {"SingleByteDecoder"} => Pending = 0

\* An EUC-JP chunk "A", 0x8E returned (1, None) with 0x8E carried.
C3_Witness ==
    /\ kind = "EUCJPDecoder"
    /\ call.op = "feed"
    /\ call.err = NoErr
    /\ call.chunk = <<\h41, \h8E>>
    /\ first = \h8E
    /\ call.processed = 1
    /\ output = <<\h41>>

\* C4: truncation detection.  After raw_feed calls on non-empty chunks, none
\* returning an error, whose bytes end inside an unfinished multi-byte
\* sequence, raw_finish of the EUC-JP and Shift-JIS decoders returns
\* "incomplete sequence".
C4_TruncationDetected ==
    ( /\ kind \in {"EUCJPDecoder", "ShiftJISDecoder"}
      /\ source = <<>>
      /\ call.op = "finish"
      /\ ~hist.errors
      /\ ~hist.empties
      /\ Shape(kind, fed) = "partial" ) =>
        call.err = Incomp

\* C5: finalize purity.  raw_finish of a decoder after raw_feed calls on
\* non-empty chunks, none returning an error, whose bytes are complete valid
\* sequences returns no error and writes nothing; raw_finish of an encoder
\* always returns no error and writes nothing.
C5_FinalizePurity ==
    (call.op = "finish" /\ source = <<>>) =>
        /\ kind \in Encoders => call.err = NoErr /\ call.out = <<>>
        /\ ( /\ kind \in Decoders
             /\ ~hist.errors
             /\ ~hist.empties
             /\ Shape(kind, fed) = "complete" ) =>
                call.err = NoErr /\ call.out = <<>>

\* C6: round trip.  For a one-character text the encoder accepted, the
\* decoder fed the emitted bytes returns no error from raw_feed and
\* raw_finish, and the sink then holds exactly that character.
C6_RoundTrip ==
    (kind \in Decoders /\ Len(source) = 1) =>
        /\ ~call.failed
        /\ ~hist.errors
        /\ call.err = NoErr
        /\ call.op = "finish" => output = source

AllASCII(s) == \A n \in 1..Len(s) : s[n] <= \h7F

\* C7: ASCII identity.  Every codec's encoder writes a text of code points
\* 0x00-0x7F as the same values with no error, and the decoder fed those
\* bytes in one chunk and finished returns no error, holds no carry, and has
\* written the original text.
C7_ASCIIIdentity ==
    /\ (kind \in Encoders /\ call.op = "feed" /\ AllASCII(call.chunk)) =>
            /\ call.err = NoErr
            /\ call.out = call.chunk
            /\ call.processed = Len(call.chunk)
    /\ (kind \in Decoders /\ AllASCII(source)) =>
            /\ fed = source
            /\ output = source
            /\ ~hist.errors
            /\ call.err = NoErr
            /\ first = 0 /\ second = 0 /\ lead = 0

\* The text "A", U+007F went through the EUC-JP encoder and decoder.
C7_Witness ==
    /\ kind = "EUCJPDecoder"
    /\ call.op = "finish"
    /\ source = <<\h41, \h7F>>
    /\ fed = <<\h41, \h7F>>
    /\ output = <<\h41, \h7F>>

\* The encoder of kind k refuses the character ch.
Unmappable(k, ch) == EncoderFeed(k, <<ch>>).err # NoErr

\* The bytes the encoder of kind k writes for each character of s in turn.
RECURSIVE BytesOf(_, _)
BytesOf(k, s) ==
    IF s = <<>> THEN <<>>
    ELSE EncoderFeed(k, <<Head(s)>>).out \o BytesOf(k, Tail(s))

\* The positions of the characters of s that the encoder of kind k refuses.
Refused(k, s) == {n \in 1..Len(s) : Unmappable(k, s[n])}

\* C8: encoder error locality.  A raw_feed of a text whose first unmappable
\* character is character number n writes exactly the bytes of the characters
\* before it, returns the UTF-8 offset where that character starts, and an
\* error "unrepresentable character" whose upto is the offset where it ends;
\* a text with no such character is written whole with no error.  What a
\* call writes and returns does not depend on the calls before it.
C8_EncoderErrorLocality ==
    (kind \in Encoders /\ call.op = "feed") =>
        LET c   == call.chunk
            bad == Refused(kind, c)
        IN
        /\ bad # {} =>
            LET n == Min(bad) IN
            /\ call.err = Unrep
            /\ call.out = BytesOf(kind, SubSeq(c, 1, n - 1))
            /\ call.processed = StrLen(SubSeq(c, 1, n - 1))
            /\ call.upto = StrLen(SubSeq(c, 1, n))
        /\ bad = {} =>
            /\ call.err = NoErr
            /\ call.out = BytesOf(kind, c)
            /\ call.processed = StrLen(c)
        /\ Len(output) >= Len(call.out)
        /\ Drop(output, Len(output) - Len(call.out)) = call.out

\* The EUC-JP encoder fed "A", U+736C, "A" in one chunk failed at the
\* X 0212 character (UTF-8 offsets 1 to 4) with only 0x41 written.
C8_Witness ==
    /\ kind = "EUCJPEncoder"
    /\ call.op = "feed"
    /\ call.chunk = <<\h41, \h736C, \h41>>
    /\ call.err = Unrep
    /\ call.processed = 1
    /\ call.upto = 4
    /\ output = <<\h41>>

\* C9: EUC-JP resynchronization.  When raw_feed on a decoder with no carry
\* fails at a two-byte lead in 0xA1-0xFE at index p that is followed in the
\* chunk by a byte t, upto is p+1 if t is outside 0xA1-0xFE and p+2 if t is
\* inside (the X 0208 coordinate being unmapped).
C9_Resynchronization ==
    ( /\ kind = "EUCJPDecoder"
      /\ call.op = "feed"
      /\ call.first = 0 /\ call.second = 0
      /\ call.err = InvSeq
      /\ call.processed + 2 <= Len(call.chunk)
      /\ call.chunk[call.processed + 1] >= \hA1
      /\ call.chunk[call.processed + 1] <= \hFE ) =>
        LET p == call.processed
            t == call.chunk[p + 2]
        IN  call.upto = IF t < \hA1 \/ t > \hFE THEN p + 1 ELSE p + 2

\* C10: EUC-JP X 0212 carry.  (a) A chunk that ends, after whole sequences,
\* with 0x8F and a byte b in 0xA1-0xFE returns without error holding b in
\* second.  (b) A non-empty chunk fed while second = b writes first the
\* X 0212 character of (b, chunk[0]), or fails with "invalid sequence" if
\* there is none.  (c) The one-byte chunk b fed while first = 0x8F returns
\* without error holding b in second.
C10_X0212Carry ==
    (kind = "EUCJPDecoder" /\ call.op = "feed") =>
        LET c == call.chunk
            n == Len(c)
        IN
        /\ ( /\ call.first = 0 /\ call.second = 0
             /\ n >= 2
             /\ c[n - 1] = \h8F
             /\ c[n] >= \hA1 /\ c[n] <= \hFE
             /\ EUCJPShape(SubSeq(c, 1, n - 2)) = "complete" ) =>
                ~call.failed /\ call.err = NoErr /\ second = c[n]
        /\ (call.second # 0 /\ n >= 1) =>
                LET ch == IF c[1] >= \hA1 /\ c[1] <= \hFE
                          THEN index0212_forward((call.second - \hA1) * 94
                                                 + (c[1] - \hA1))
                          ELSE \hFFFF
                IN  IF ch = \hFFFF
                    THEN call.err = InvSeq /\ call.out = <<>>
                    ELSE call.out # <<>> /\ call.out[1] = ch
        /\ ( /\ call.first = \h8F
             /\ n = 1
             /\ c[1] >= \hA1 /\ c[1] <= \hFE ) =>
                ~call.failed /\ call.err = NoErr /\ second = c[1]

\* The bytes a decoder holds in its carry slots before a call, oldest first.
Carried ==
    (IF call.first # 0 THEN <<call.first>> ELSE <<>>)
        \o (IF call.second # 0 THEN <<call.second>> ELSE <<>>)
        \o (IF call.lead # 0 THEN <<call.lead>> ELSE <<>>)

\* C11: decoder failure offsets.  When raw_feed of a decoder returns an
\* error, 0 <= processed <= upto <= chunk length, and what the call wrote is
\* exactly what a fresh decoder writes for the carried bytes followed by
\* chunk[0, processed): nothing is written for the bytes from processed on.
C11_FailureOffsets ==
    ( /\ kind \in Decoders
      /\ source = <<>>
      /\ call.op = "feed"
      /\ ~call.failed
      /\ call.err # NoErr ) =>
        LET ref == DecoderFeed(kind, 0, 0, 0,
                               Carried \o SubSeq(call.chunk, 1, call.processed))
        IN
        /\ call.err = InvSeq
        /\ 0 <= call.processed
        /\ call.processed <= call.upto
        /\ call.upto <= Len(call.chunk)
        /\ ~ref.failed
        /\ ref.err = NoErr
        /\ call.out = ref.out

\* An EUC-JP decoder carrying 0xC6 is fed 0xFC, 0x41, 0xFF: it writes U+65E5
\* and "A" and fails at the 0xFF with processed = 2 and upto = 3.
C11_Witness ==
    /\ kind = "EUCJPDecoder"
    /\ call.op = "feed"
    /\ call.first = \hC6
    /\ call.chunk = <<\hFC, \h41, \hFF>>
    /\ call.err = InvSeq
    /\ call.processed = 2
    /\ call.upto = 3
    /\ call.out = <<\h65E5, \h41>>

\* C12: errors are never swallowed across chunk boundaries.  For the EUC-JP
\* and Shift-JIS decoders, if feeding a byte sequence to a fresh decoder as
\* one chunk returns "invalid sequence", then feeding it in non-empty chunks
\* and finalizing also reports an error, from one of the feeds or from the
\* finalize.
C12_ErrorsNotSwallowed ==
    ( /\ kind \in {"EUCJPDecoder", "ShiftJISDecoder"}
      /\ source = <<>>
      /\ call.op = "finish"
      /\ ~hist.empties
      /\ LET whole == DecoderFeed(kind, 0, 0, 0, fed)
         IN  ~whole.failed /\ whole.err = InvSeq ) =>
        (hist.errors \/ call.err # NoErr)

\* C13: finalize on a decoder returns "incomplete sequence" if and only if a
\* carry slot is non-zero when it is called (EUC-JP first or second, Shift-JIS
\* lead); it writes nothing and leaves the carry slots as they were; finalize
\* of the single-byte decoder never returns an error.
C13_DecoderFinalize ==
    [][ (kind \in Decoders /\ call'.op = "finish") =>
          /\ (call'.err = Incomp) <=> (first # 0 \/ second # 0 \/ lead # 0)
          /\ call'.err \in {Incomp, NoErr}
          /\ output' = output
          /\ first' = first /\ second' = second /\ lead' = lead
          /\ (kind = "SingleByteDecoder" => call'.err = NoErr) ]_vars

\* finalize of an EUC-JP decoder that holds the prefix 0x8E after a feed of
\* 0x41, 0x8E: "A" is in the output and the call returns "incomplete sequence".
C13_Witness ==
    /\ kind = "EUCJPDecoder"
    /\ call.op = "finish"
    /\ call.err = Incomp
    /\ first = \h8E
    /\ second = 0
    /\ fed = <<\h41, \h8E>>
    /\ output = <<\h41>>

\* The code point of a byte under the single-byte rule, and the bytes that
\* have none.
SingleByteChar(b) == IF b <= \h7F THEN b ELSE index_forward(b - \h80)

SingleByteUnmapped(b) == b > \h7F /\ index_forward(b - \h80) = \hFFFF

\* C14: the single-byte decoder decodes a chunk left to right.  At the first
\* byte, at index p, whose table entry is unmapped, feed returns processed = p
\* and upto = p + 1 with "invalid sequence", having written exactly the
\* characters of bytes 0..p-1; with no such byte it returns processed = chunk
\* length and no error, having written the character of every byte.
C14_SingleByteDecoder ==
    ( /\ kind = "SingleByteDecoder"
      /\ source = <<>>
      /\ call.op = "feed" ) =>
        LET c   == call.chunk
            bad == {p \in 0..(Len(c) - 1) : SingleByteUnmapped(c[p + 1])}
            p   == IF bad = {} THEN Len(c) ELSE Min(bad)
        IN
        /\ ~call.failed
        /\ call.processed = p
        /\ call.out = [n \in 1..p |-> SingleByteChar(c[n])]
        /\ IF bad = {}
           THEN call.err = NoErr
           ELSE call.err = InvSeq /\ call.upto = p + 1

\* 0x41, 0xA1, 0xA5: "A" and U+0126 are written, 0xA5 is unmapped.
C14_Witness ==
    /\ kind = "SingleByteDecoder"
    /\ call.op = "feed"
    /\ call.chunk = <<\h41, \hA1, \hA5>>
    /\ call.out = <<\h41, \h0126>>
    /\ call.err = InvSeq
    /\ call.processed = 2
    /\ call.upto = 3

\* The four classes of a byte that starts a Shift-JIS sequence.
SJISClass(b) ==
    IF b <= \h7F THEN "ascii"
    ELSE IF b >= \hA1 /\ b <= \hDF THEN "kana"
    ELSE IF (b >= \h81 /\ b <= \h9F) \/ (b >= \hE0 /\ b <= \hFC) THEN "lead"
    ELSE "other"

\* What C15 says of a call on chunk c by a decoder with no carry, for the byte
\* at index p that starts a sequence; r is the call's result, l the lead slot
\* after it, and pre what the whole sequences c[0, p) decode to.
SJISClassified(c, p, r, l) ==
    LET b   == c[p + 1]
        pre == ShiftJISDecoder_raw_feed(0, SubSeq(c, 1, p)).out
        n   == Len(pre) + 1
    IN
    CASE SJISClass(b) = "ascii" ->
            Len(r.out) >= n /\ r.out[n] = b
      [] SJISClass(b) = "kana" ->
            Len(r.out) >= n /\ r.out[n] = \hFF61 + (b - \hA1)
      [] SJISClass(b) = "lead" ->
            IF p + 1 = Len(c)
            THEN r.err = NoErr /\ l = b /\ r.processed = p /\ r.out = pre
            ELSE LET t  == c[p + 2]
                     ch == index0208_forward(SJISCoordinate(b, t))
                 IN  IF SJISTrail(t) /\ ch # \hFFFF
                     THEN Len(r.out) >= n /\ r.out[n] = ch
                     ELSE r.err = InvSeq /\ r.processed = p /\ r.out = pre
      [] OTHER ->
            /\ r.err = InvSeq
            /\ r.processed = p
            /\ r.upto = p + 1
            /\ r.out = pre

\* C15: Shift-JIS byte classification.  With an empty carry, a byte b at index
\* p that starts a sequence is decoded as ASCII if b <= 0x7F, as
\* U+FF61 + (b - 0xA1) if b is in 0xA1-0xDF, is taken as a two-byte lead if b
\* is in 0x81-0x9F or 0xE0-0xFC, and for any other value (0x80, 0xA0,
\* 0xFD-0xFF) feed returns "invalid sequence" at once with processed = p and
\* upto = p + 1.  Checked on every call of the decoder, and for each of the
\* 256 byte values as a one-byte and as the last byte of a two-byte chunk.
C15_ShiftJISClassification ==
    /\ ( /\ kind = "ShiftJISDecoder"
         /\ source = <<>>
         /\ call.op = "feed"
         /\ call.lead = 0 ) =>
            \A p \in 0..(Len(call.chunk) - 1) :
                ShiftJISShape(SubSeq(call.chunk, 1, p)) = "complete" =>
                    SJISClassified(call.chunk, p, call, lead)
    /\ (kind = "ShiftJISDecoder" /\ call.op = "new") =>
            \A b \in 0..255 :
                LET one == ShiftJISDecoder_raw_feed(0, <<b>>)
                    two == ShiftJISDecoder_raw_feed(0, <<\h41, b>>)
                IN  /\ SJISClassified(<<b>>, 0, one, one.lead)
                    /\ SJISClassified(<<\h41, b>>, 1, two, two.lead)

\* "{" then 0x80: the "{" is written, 0x80 is refused where it stands.
C15_Witness ==
    /\ kind = "ShiftJISDecoder"
    /\ call.op = "feed"
    /\ call.lead = 0
    /\ call.chunk = <<\h7B, \h80>>
    /\ call.out = <<\h7B>>
    /\ call.err = InvSeq
    /\ call.processed = 1
    /\ call.upto = 2

\* The value a decoder hands to a forward lookup for a lead/trail pair:
\* `index as u16`.
EUCJPPassed(l, t) == EUCJP_index(l, t) % 65536

ShiftJISPassed(l, t) == ShiftJIS_index(l, t) % 65536

\* The index the first forward lookup of the current call was given, if the
\* call made one: for the carried byte and the first byte of the chunk, or,
\* with no carry, for the first two bytes of the chunk.
FirstLookup ==
    LET c == call.chunk IN
    IF call.op # "feed" \/ source # <<>> THEN {}
    ELSE IF kind = "EUCJPDecoder" THEN
        IF /\ call.first \notin {0, \h8F}
           /\ c # <<>>
           /\ ~(call.first = \h8E /\ c[1] >= \hA1 /\ c[1] <= \hDF)
        THEN {EUCJPPassed(call.first, c[1])}
        ELSE IF /\ call.first = 0
                /\ Len(c) >= 2
                /\ c[1] >= \hA1 /\ c[1] <= \hFE
                /\ c[2] >= \hA1 /\ c[2] <= \hFE
        THEN {EUCJPPassed(c[1], c[2])}
        ELSE {}
    ELSE IF kind = "ShiftJISDecoder" THEN
        IF call.lead # 0 /\ c # <<>>
        THEN {ShiftJISPassed(call.lead, c[1])}
        ELSE IF /\ call.lead = 0
                /\ Len(c) >= 2
                /\ (c[1] >= \h81 /\ c[1] <= \h9F) \/ (c[1] >= \hE0 /\ c[1] <= \hFC)
        THEN {ShiftJISPassed(c[1], c[2])}
        ELSE {}
    ELSE {}

\* C16 as stated: every index that the EUC-JP and Shift-JIS decoders pass to
\* a forward lookup is in [0, 8836) or is the unmapped sentinel 0xFFFF.
C16_IndexInMatrix ==
    \A ix \in FirstLookup : (0 <= ix /\ ix < 94 * 94) \/ ix = \hFFFF

\* C16, amended: every index the EUC-JP decoder passes to a forward lookup is
\* in [0, 8836) or is 0xFFFF; every index the Shift-JIS decoder passes is in
\* [0, 11280) or is 0xFFFF.  Checked on the calls of the decoders, and for
\* every pair of byte values.
C16_IndexInRange ==
    /\ \A ix \in FirstLookup :
            \/ ix = \hFFFF
            \/ 0 <= ix /\ ix < (IF kind = "EUCJPDecoder" THEN 94 * 94 ELSE 60 * 188)
    /\ (kind = "EUCJPDecoder" /\ call.op = "new") =>
            \A l \in 0..255 : \A t \in 0..255 :
                LET ix == EUCJPPassed(l, t) IN
                (0 <= ix /\ ix < 94 * 94) \/ ix = \hFFFF
    /\ (kind = "ShiftJISDecoder" /\ call.op = "new") =>
            \A l \in 0..255 : \A t \in 0..255 :
                LET ix == ShiftJISPassed(l, t) IN
                (0 <= ix /\ ix < 60 * 188) \/ ix = \hFFFF

\* A Shift-JIS decoder carrying the lead 0xFA is fed 0x7B: the lookup is
\* given (0xFA - 0xC1) * 188 + 0x7B - 0x40 = 10775, past the 94 x 94 matrix,
\* and the table has no entry there.
C16_Witness ==
    /\ kind = "ShiftJISDecoder"
    /\ call.op = "feed"
    /\ call.lead = \hFA
    /\ call.chunk = <<\h7B>>
    /\ FirstLookup = {10775}
    /\ call.err = InvSeq

\* C17: carry-slot invariant.  After every feed call that returns, with or
\* without an error, each carry slot of a decoder is 0 or a lead/prefix byte:
\* EUC-JP first is 0, 0x8E, 0x8F or in 0xA1-0xFE, EUC-JP second is 0 or in
\* 0xA1-0xFE, Shift-JIS lead is 0 or in 0x81-0x9F or 0xE0-0xFC.
C17_CarrySlots ==
    (kind \in Decoders /\ call.op = "feed" /\ ~call.failed) =>
        /\ kind = "EUCJPDecoder" =>
            /\ first \in {0, \h8E, \h8F} \/ (first >= \hA1 /\ first <= \hFE)
            /\ second = 0 \/ (second >= \hA1 /\ second <= \hFE)
            /\ lead = 0
        /\ kind = "ShiftJISDecoder" =>
            /\ lead = 0 \/ (lead >= \h81 /\ lead <= \h9F)
                        \/ (lead >= \hE0 /\ lead <= \hFC)
            /\ first = 0 /\ second = 0
        /\ kind = "SingleByteDecoder" =>
            first = 0 /\ second = 0 /\ lead = 0

\* An EUC-JP decoder carrying 0x8F is fed the single byte 0x41: the call
\* returns with both slots 0, although it stored 0x41 in second on the way.
C17_Witness ==
    /\ kind = "EUCJPDecoder"
    /\ call.op = "feed"
    /\ ~call.failed
    /\ call.first = \h8F
    /\ call.chunk = <<\h41>>
    /\ first = 0
    /\ second = 0

\* C18 for one coordinate: the values the Shift-JIS encoder writes fit in 8
\* bits, are a lead in 0x81-0x9F or 0xE0-0xFC and a trail in 0x40-0x7E or
\* 0x80-0xFC, and the decoder's index computation on them gives ptr back.
ShiftJISLayoutInverse(ptr) ==
    LET b == ShiftJISEncoder_bytes(ptr) IN
    /\ b[1] < 256 /\ b[2] < 256
    /\ (b[1] >= \h81 /\ b[1] <= \h9F) \/ (b[1] >= \hE0 /\ b[1] <= \hFC)
    /\ (b[2] >= \h40 /\ b[2] <= \h7E) \/ (b[2] >= \h80 /\ b[2] <= \hFC)
    /\ ShiftJIS_index(b[1], b[2]) = ptr

\* The same for EUC-JP, both bytes in 0xA1-0xFE.
EUCJPLayoutInverse(ptr) ==
    LET b == EUCJPEncoder_bytes(ptr) IN
    /\ b[1] >= \hA1 /\ b[1] <= \hFE
    /\ b[2] >= \hA1 /\ b[2] <= \hFE
    /\ EUCJP_index(b[1], b[2]) = ptr

\* C18: the byte-layout arithmetic of encoder and decoder is an exact inverse
\* pair.  For every matrix coordinate ptr in [0, 8836), the Shift-JIS
\* encoder's lead and trail fit in 8 bits, lie in the lead and trail ranges,
\* and the Shift-JIS decoder's index computation on them returns ptr; the
\* same holds for EUC-JP with both bytes in 0xA1-0xFE.  Checked for every ptr,
\* and on every call that encodes one X 0208 character: the two bytes written
\* are those of its coordinate, and the decoder's index of them is the
\* coordinate.
C18_LayoutInverse ==
    /\ (kind = "ShiftJISEncoder" /\ call.op = "new") =>
            \A ptr \in 0..(94 * 94 - 1) : ShiftJISLayoutInverse(ptr)
    /\ (kind = "EUCJPEncoder" /\ call.op = "new") =>
            \A ptr \in 0..(94 * 94 - 1) : EUCJPLayoutInverse(ptr)
    /\ ( /\ kind \in {"ShiftJISEncoder", "EUCJPEncoder"}
         /\ call.op = "feed"
         /\ Len(call.chunk) = 1
         /\ call.chunk[1] > \h80
         /\ call.err = NoErr
         /\ Len(call.out) = 2
         /\ call.out[1] # \h8E ) =>
            LET ptr == index0208_backward(call.chunk[1]) IN
            /\ ptr < 94 * 94
            /\ IF kind = "ShiftJISEncoder"
               THEN /\ call.out = ShiftJISEncoder_bytes(ptr)
                    /\ ShiftJIS_index(call.out[1], call.out[2]) = ptr
               ELSE /\ call.out = EUCJPEncoder_bytes(ptr)
                    /\ EUCJP_index(call.out[1], call.out[2]) = ptr

\* U+8C78, coordinate 7073 = 37 * 188 + 117, is written by the Shift-JIS
\* encoder as 0xC1 + 37, 0x41 + 117.
C18_Witness ==
    /\ kind = "ShiftJISEncoder"
    /\ call.op = "feed"
    /\ call.chunk = <<\h8C78>>
    /\ call.err = NoErr
    /\ call.out = <<\hE6, \hB6>>
    /\ ShiftJIS_index(\hE6, \hB6) = 7073

\* C19: feeding an empty chunk is a no-op.  For the EUC-JP and Shift-JIS
\* decoders in any carry state, raw_feed of a zero-length chunk returns
\* (0, no error), writes nothing and leaves every carry slot as it was.
C19_EmptyChunkNoOp ==
    ( /\ kind \in {"EUCJPDecoder", "ShiftJISDecoder"}
      /\ source = <<>>
      /\ call.op = "feed"
      /\ call.chunk = <<>> ) =>
        /\ ~call.failed
        /\ call.processed = 0
        /\ call.err = NoErr
        /\ call.out = <<>>
        /\ first = call.first
        /\ second = call.second
        /\ lead = call.lead

\* C20: every decoder feed call returns normally, for every carry state and
\* every chunk: no execution of raw_feed reads input at an index outside
\* [0, chunk length).
C20_FeedReturns ==
    (kind \in Decoders /\ call.op = "feed") => ~call.failed

\* A decoder whose last call was a raw_feed that returned "invalid sequence".
AfterInvalid ==
    /\ kind \in Decoders
    /\ source = <<>>
    /\ call.op = "feed"
    /\ ~call.failed
    /\ call.err = InvSeq

\* C21: clean state after an error.  Whenever a decoder's raw_feed returns
\* "invalid sequence", from the carry resumption or from the main loop, all
\* carry slots are 0 on return; raw_finish called at once on that state
\* returns no error, and raw_feed called at once on it with the rest of the
\* chunk, from upto on, returns what the feed of a new decoder returns for
\* those bytes: it starts a new sequence.
C21_CleanAfterError ==
    AfterInvalid =>
        /\ first = 0 /\ second = 0 /\ lead = 0
        /\ NoErr = CASE kind = "EUCJPDecoder" ->
                            EUCJPDecoder_raw_finish(first, second)
                      [] kind = "ShiftJISDecoder" ->
                            ShiftJISDecoder_raw_finish(lead)
                      [] kind = "SingleByteDecoder" ->
                            SingleByteDecoder_raw_finish
        /\ LET rest == Drop(call.chunk, call.upto) IN
            DecoderFeed(kind, first, second, lead, rest)
                = DecoderFeed(kind, 0, 0, 0, rest)

\* An EUC-JP decoder is fed the lead 0xC6 and then "A", in one chunk or in
\* two: a feed returns "invalid sequence", and the finalize that follows
\* finds both slots 0 and returns no error.
C21_Witness ==
    /\ kind = "EUCJPDecoder"
    /\ fed = <<\hC6, \h41>>
    /\ hist.errors
    /\ call.op = "finish"
    /\ call.first = 0 /\ call.second = 0
    /\ call.err = NoErr

====
